---- MODULE Spec2Model ----
(***************************************************************************)
(* SavingThrow (src/SavingThrow.py, Python 2): fetch adware description    *)
(* lists with a cache fallback, detect the "projectX" launchd jobs, glob   *)
(* the collected patterns and report, remove or quarantine the matches.    *)
(*                                                                         *)
(* Text is modelled as a sequence of atoms: "/" and "\n" are atoms of      *)
(* their own, every other atom is an indivisible run of characters, so     *)
(* that split, basename, join and the regular expression are computed on   *)
(* the text as the code computes them.                                     *)
(***************************************************************************)
EXTENDS Integers, Sequences, FiniteSets, TLC

VARIABLES
    pc,            \* position of the run: "load", "detect", "match", "act",
                   \* "quarantine", "done", "exit", "crashed"
    exc,           \* the uncaught exception or exit status that ended the run
    args,          \* the mode flag given: "none", "stdout", "remove", "quarantine"
    sources,       \* the list handed to load_adware_description_files: its
                   \* length and the set its elements are drawn from, each
                   \* element being drawn when the for loop reaches it
    idx,           \* position of the for loop of load_adware_description_files
    source,        \* the loop variable of load_adware_description_files
    adware_list,   \* the local adware_list: {} while unbound, {text} once bound
    known_adware,  \* the set of patterns collected so far
    cache,         \* list files under CACHE: path -> {} (absent) or {text}
    last,          \* branch the latest iteration of the fetcher's loop took:
                   \* "stored", "denied", "write-error", "cached", "stale",
                   \* "unbound"; "returned" once the function has returned
    fs,            \* the scanned part of the file system: path -> kind
    locked,        \* paths that cannot be renamed, unlinked or removed
    unreadable,    \* paths that cannot be opened for reading
    job,           \* text of the launchd job files
    projectx,      \* the set get_projectX_files returned
    found_adware,  \* main's found_adware, the argument `files` of the actions
    todo,          \* the items the running for loop over `files` has left
    backup_dir,    \* quarantine's local backup_dir: {} while unbound
    qdirs,         \* the timestamped directories that exist under CACHE
    moved,         \* the entries of backup_dir, each a pair <<path, kind>>
    outcome,       \* per item, the outcome the log states
    output         \* what the reporters printed

fetchVars == <<sources, idx, source, adware_list, cache, last>>
diskVars == <<fs, locked, unreadable, job>>
actVars == <<found_adware, todo, backup_dir, qdirs, moved, outcome, output>>
vars == <<pc, exc, args, known_adware, projectx, fetchVars, diskVars, actVars>>

----------------------------------------------------------------------------
(* Bounds of the model. *)
MaxChunks == 2      \* pieces (a pattern or a newline) a list's text is built of
MaxSources == 2     \* length of the list of sources of one call
MaxJobChunks == 3   \* pieces a launchd job's text is built of
MaxProtected == 1   \* paths that are locked or unreadable

----------------------------------------------------------------------------
(* Text helpers. *)
NL == "\n"
SEP == "/"

RECURSIVE Flatten(_)
Flatten(ss) == IF ss = <<>> THEN <<>> ELSE Head(ss) \o Flatten(Tail(ss))

SeqsUpTo(S, n) == UNION {[1..k -> S] : k \in 0..n}

SetMax(S) == CHOOSE m \in S : \A x \in S : x <= m

(* str.split('\n'): the pieces between the newlines, empty pieces kept. *)
RECURSIVE Split(_)
Split(s) ==
    IF \A k \in 1..Len(s) : s[k] # NL
    THEN <<s>>
    ELSE LET k == CHOOSE i \in 1..Len(s) :
                      s[i] = NL /\ \A j \in 1..(i - 1) : s[j] # NL
         IN  <<SubSeq(s, 1, k - 1)>> \o Split(SubSeq(s, k + 1, Len(s)))

(* {file for file in adware_list.split('\n')} *)
ParseList(text) == {Split(text)[i] : i \in DOMAIN Split(text)}

(* os.path.basename: what follows the last "/". *)
Basename(p) ==
    LET seps == {k \in 1..Len(p) : p[k] = SEP}
    IN  IF seps = {} THEN p ELSE SubSeq(p, SetMax(seps) + 1, Len(p))

(* os.path.join of a directory and a relative name. *)
Join(dir, name) == dir \o <<SEP>> \o name

----------------------------------------------------------------------------
(* Program constants. *)
CACHE == <<SEP, "Library", SEP, "Application Support", SEP, "SavingThrow">>

AppleAdwareList ==
    <<"https:", SEP, SEP, "gist.githubusercontent.com", SEP, "sheagcraig", SEP,
      "5c76604f823d45792952", SEP, "raw", SEP,
      "8e8eaa9f69905265912ccc615949505558ff40f6", SEP, "AppleAdwareList">>

NEFARIOUS_FILE_SOURCES == <<AppleAdwareList>>

(* Further sources a caller may pass: a mirror whose trailing path segment *)
(* equals that of the default source, and an unrelated list.               *)
MirrorList == <<"https:", SEP, SEP, "mirror.example", SEP, "AppleAdwareList">>
OtherList == <<"https:", SEP, SEP, "mirror.example", SEP, "VendorList">>
Sources == {AppleAdwareList, MirrorList, OtherList}
SourceLists == {[len |-> n, of |-> Sources] : n \in 0..MaxSources}

(* The scanned part of the file system: the two launchd job files the    *)
(* templates of get_projectX_files match, the install directory the job    *)
(* names, a file inside it whose base name equals the agent job's, and     *)
(* /Library/Application Support/ itself, written with the trailing slash   *)
(* it has when the name found in a job is empty.                           *)
LaunchAgents == <<SEP, "Library", SEP, "LaunchAgents">>
LaunchDaemons == <<SEP, "Library", SEP, "LaunchDaemons">>
AppSupport == <<SEP, "Library", SEP, "Application Support">>
AgentJob == Join(LaunchAgents, <<"com.n.agent.plist">>)
DaemonJob == Join(LaunchDaemons, <<"com.n.daemon.plist">>)
InstallDir == Join(AppSupport, <<"n">>)
InstallFile == Join(InstallDir, <<"com.n.agent.plist">>)
AppSupportSlash == AppSupport \o <<SEP>>
Paths == {AgentJob, DaemonJob, InstallDir, InstallFile, AppSupportSlash}
Jobs == {AgentJob, DaemonJob}

(* Texts of an adware list: pieces that are a pattern or a newline. *)
PatGlob == Join(InstallDir, <<"*">>)
ListChunks == {<<NL>>, PatGlob}
ListContents == {Flatten(cs) : cs \in SeqsUpTo(ListChunks, MaxChunks)}

(* Texts of a launchd job: pieces of the path the regular expression of    *)
(* get_projectX_files looks for, the same path with another character in   *)
(* place of the dot of "agent.app", a name, or a newline.                  *)
SigPrefix == AppSupport \o <<SEP>>
SigSuffix == <<SEP, "Agent", SEP, "agent.app", SEP, "Contents", SEP, "MacOS",
               SEP, "agent">>
SigSuffixX == <<SEP, "Agent", SEP, "agentXapp", SEP, "Contents", SEP, "MacOS",
                SEP, "agent">>
JobChunks == {SigPrefix, <<"n">>, SigSuffix, SigSuffixX, <<NL>>}
JobTexts == {Flatten(cs) : cs \in SeqsUpTo(JobChunks, MaxJobChunks)}
JobSamples == {<<"n">>, SigPrefix \o <<"n">> \o SigSuffix, SigPrefix \o SigSuffix}

(* The cache file of a source: os.path.join(CACHE, os.path.basename(source)) *)
CachePath(src) == Join(CACHE, Basename(src))
CacheFiles == {Join(CACHE, Basename(s)) : s \in Sources}

(* Names time.strftime("%Y%m%d-%H%M%S") may give during the run. *)
Stamps == {"20150301-120000", "20150301-120001"}

(* What a cache file may hold after open(path, 'w') succeeded and the     *)
(* write of the text failed: open() has truncated it and a part of the     *)
(* text, from its start, has reached it.                                   *)
Truncated(text) == {{SubSeq(text, 1, k)} : k \in 0..(Len(text) - 1)}

----------------------------------------------------------------------------
(* The file system as the code observes it. *)

(* A path without the slash it may end with. *)
Strip(p) ==
    IF Len(p) > 1 /\ p[Len(p)] = SEP THEN SubSeq(p, 1, Len(p) - 1) ELSE p

IsUnder(dir, p) ==
    /\ Len(p) > Len(Strip(dir)) + 1
    /\ SubSeq(p, 1, Len(Strip(dir)) + 1) = Strip(dir) \o <<SEP>>

Below(p) == {q \in Paths : IsUnder(p, q)}

(* The names a path component of a glob pattern matches (fnmatch). *)
Names == {"Library", "LaunchAgents", "LaunchDaemons", "Application Support",
          "n", "com.n.agent.plist", "com.n.daemon.plist"}
Magic == {"*", "com.*.agent.plist", "com.*.helper.plist", "com.*.daemon.plist"}
Expansions(atom) ==
    CASE atom = "*" -> Names
      [] atom = "com.*.agent.plist" -> {"com.n.agent.plist"}
      [] atom = "com.*.helper.plist" -> {}
      [] atom = "com.*.daemon.plist" -> {"com.n.daemon.plist"}
      [] OTHER -> {atom}

(* The paths glob can name: the directories that are always there, and    *)
(* the scanned ones.                                                       *)
FixedDirs == {<<SEP>>, <<SEP, "Library">>, LaunchAgents, LaunchDaemons}
Nodes == FixedDirs \cup {AppSupport} \cup (Paths \ {AppSupportSlash})

(* os.path.lexists (a broken link counts) and os.path.isdir. *)
Lexists(p, disk) ==
    \/ p \in FixedDirs
    \/ p = AppSupport /\ disk[AppSupportSlash] = "dir"
    \/ p \in Paths \ {AppSupportSlash} /\ disk[p] # "none"
IsDir(p, disk) ==
    \/ p \in FixedDirs
    \/ p = AppSupport /\ disk[AppSupportSlash] = "dir"
    \/ p \in Paths \ {AppSupportSlash} /\ disk[p] = "dir"

(* os.listdir of the directory fails: it cannot be read. *)
Unlistable(p) ==
    \/ p \in unreadable
    \/ p = AppSupport /\ AppSupportSlash \in unreadable

(* glob.glob(pattern): the existing paths whose components match those of *)
(* the pattern, a component with a wildcard being looked for in the        *)
(* listing of its directory (no listing, no match); a pattern that ends    *)
(* with a slash gives the directories, written with the slash.             *)
Glob(pattern, disk) ==
    LET base == Strip(pattern)
        hits == {p \in Nodes :
                    /\ Lexists(p, disk)
                    /\ Len(p) = Len(base)
                    /\ \A k \in 1..Len(p) :
                           /\ p[k] \in Expansions(base[k])
                           /\ base[k] \in Magic =>
                                  ~Unlistable(SubSeq(p, 1, k - 2))}
    IN  IF pattern = <<>> THEN {}
        ELSE IF base # pattern
        THEN {p \o <<SEP>> : p \in {h \in hits : IsDir(h, disk)}}
        ELSE hits

(* {match for filename in patterns for match in glob.glob(filename)} *)
GlobAll(patterns, disk) == UNION {Glob(pattern, disk) : pattern \in patterns}

(* open(path, 'r') succeeds. *)
CanRead(p) == fs[p] = "file" /\ p \notin unreadable

KindsOf(p) ==
    CASE p \in Jobs -> {"none", "file", "link"}
      [] p = InstallDir -> {"none", "dir"}
      [] p = AppSupportSlash -> {"dir"}
      [] OTHER -> {"none", "file"}

FileSystems ==
    {d \in [Paths -> {"none", "file", "dir", "link"}] :
        /\ \A p \in Paths : d[p] \in KindsOf(p)
        /\ \A p \in Paths : d[p] # "none" =>
               \A q \in Paths : IsUnder(q, p) => d[q] = "dir"}

Protections ==
    {pr \in [locked : SUBSET Paths, unreadable : SUBSET Paths] :
        Cardinality(pr.locked \cup pr.unreadable) <= MaxProtected}

----------------------------------------------------------------------------
(* load_adware_description_files: one iteration of `for source in sources`. *)

(* known_adware.update({file for file in adware_list.split('\n')}) *)
UpdateKnown(known, text) == known \cup ParseList(text)

(* Lines 141-146 and 164: the download succeeds and the cached copy is     *)
(* rewritten.                                                              *)
FetchStored(src, text) ==
    /\ cache' = [cache EXCEPT ![CachePath(src)] = {text}]
    /\ adware_list' = {text}
    /\ known_adware' = UpdateKnown(known_adware, text)
    /\ idx' = idx + 1
    /\ last' = "stored"
    /\ UNCHANGED <<pc, exc>>

(* Lines 147-150: open() of the cache file fails with errno 13. *)
FetchPermissionDenied(src, text) ==
    /\ pc' = "exit"
    /\ exc' = "SystemExit(13)"
    /\ adware_list' = {text}
    /\ last' = "denied"
    /\ UNCHANGED <<cache, known_adware, idx>>

(* Lines 151-152: any other IOError of the cache write is raised again; it *)
(* is no URLError, so it leaves the function. The file is untouched when   *)
(* open() failed and is left truncated when write() did.                   *)
FetchWriteError(src, text) ==
    /\ \E after \in {cache[CachePath(src)]} \cup Truncated(text) :
           cache' = [cache EXCEPT ![CachePath(src)] = after]
    /\ pc' = "crashed"
    /\ exc' = "IOError"
    /\ adware_list' = {text}
    /\ last' = "write-error"
    /\ UNCHANGED <<known_adware, idx>>

(* Lines 154-159 and 164: URLError, and the cached copy is read. *)
FallbackCached(src) ==
    /\ cache[CachePath(src)] # {}
    /\ adware_list' = cache[CachePath(src)]
    /\ \E text \in cache[CachePath(src)] :
           known_adware' = UpdateKnown(known_adware, text)
    /\ idx' = idx + 1
    /\ last' = "cached"
    /\ UNCHANGED <<pc, exc, cache>>

(* Lines 154-164: URLError, and open() of the cached copy raises IOError   *)
(* (the file is absent, or it cannot be read): the error is logged and     *)
(* line 164 reads adware_list as the earlier iterations left it.           *)
FallbackUnreadable(src) ==
    /\ IF adware_list = {}
       THEN /\ pc' = "crashed"
            /\ exc' = "UnboundLocalError"
            /\ last' = "unbound"
            /\ UNCHANGED <<known_adware, idx>>
       ELSE \E stale \in adware_list :
                /\ known_adware' = UpdateKnown(known_adware, stale)
                /\ idx' = idx + 1
                /\ last' = "stale"
                /\ UNCHANGED <<pc, exc>>
    /\ UNCHANGED <<cache, adware_list>>

LoadSource ==
    /\ pc = "load"
    /\ idx <= sources.len
    /\ \E src \in sources.of :
        /\ source' = src
        /\ \/ FallbackUnreadable(src)
           \/ FallbackCached(src)
           \/ \E text \in ListContents : FetchStored(src, text)
           \/ \E text \in ListContents : FetchPermissionDenied(src, text)
           \/ \E text \in ListContents : FetchWriteError(src, text)
    /\ UNCHANGED <<args, sources, projectx, diskVars, actVars>>

(* Line 166 and lines 256-258: the loop is over, the set is returned. *)
LoadReturn ==
    /\ pc = "load"
    /\ idx > sources.len
    /\ pc' = "detect"
    /\ last' = "returned"
    /\ UNCHANGED <<exc, args, known_adware, projectx, sources, idx, source,
                   adware_list, cache, diskVars, actVars>>

(* The function is called again (a later run of the program, or another    *)
(* caller): its locals are fresh, the files under CACHE are as left.       *)
CallAgain ==
    /\ pc \in {"detect", "exit", "crashed"}
    /\ pc' = "load"
    /\ exc' = "none"
    /\ sources' \in SourceLists
    /\ idx' = 1
    /\ source' = <<>>
    /\ adware_list' = {}
    /\ known_adware' = {}
    /\ last' = "none"
    /\ UNCHANGED <<args, cache, projectx, diskVars, actVars>>

----------------------------------------------------------------------------
(* get_projectX_files *)

projectx_files ==
    {Join(LaunchAgents, <<"com.*.agent.plist">>),
     Join(LaunchDaemons, <<"com.*.helper.plist">>),
     Join(LaunchDaemons, <<"com.*.daemon.plist">>)}

OccursAt(piece, line, i) ==
    /\ i + Len(piece) - 1 <= Len(line)
    /\ SubSeq(line, i, i + Len(piece) - 1) = piece

(* The literal part after the group of agent_regex is matched at i: the    *)
(* "." of "agent.app" is not escaped and matches any character.            *)
SuffixMatchesAt(line, i) == OccursAt(SigSuffix, line, i) \/ OccursAt(SigSuffixX, line, i)

(* The places where agent_regex matches inside one line: the prefix at i   *)
(* and, after it, the suffix at j ("." matches no newline, so a match lies *)
(* within a line).                                                         *)
RegexHits(line) ==
    {h \in (1..Len(line)) \X (1..Len(line)) :
        /\ OccursAt(SigPrefix, line, h[1])
        /\ SuffixMatchesAt(line, h[2])
        /\ h[2] >= h[1] + Len(SigPrefix)}

(* re.search(agent_regex, launchd_job): {} when there is no match, else    *)
(* {group(1)}. The search takes the first line that matches; its leading   *)
(* ".*" and its group are greedy, so the prefix is the last one a suffix   *)
(* follows and the group runs up to the last suffix.                       *)
RegexSearch(text) ==
    LET lines == Split(text)
        hits == {k \in DOMAIN lines : RegexHits(lines[k]) # {}}
    IN  IF hits = {} THEN {}
        ELSE LET line == lines[CHOOSE k \in hits : \A m \in hits : k <= m]
                 i == SetMax({h[1] : h \in RegexHits(line)})
                 j == SetMax({h[2] : h \in {g \in RegexHits(line) : g[1] = i}})
             IN  {SubSeq(line, i + Len(SigPrefix), j - 1)}

(* Lines 119-125: what one candidate adds to result. *)
CandidateResult(candidate, text) ==
    IF RegexSearch(text) # {}
    THEN {candidate} \cup {SigPrefix \o name : name \in RegexSearch(text)}
    ELSE {}

(* Lines 104-127, and main's known_adware.update of line 261. open() of a  *)
(* candidate that cannot be read raises IOError, which nothing catches.    *)
get_projectX_files ==
    /\ pc = "detect"
    /\ LET projectx_candidates == GlobAll(projectx_files, fs)
       IN  IF \E candidate \in projectx_candidates : ~CanRead(candidate)
           THEN /\ pc' = "crashed"
                /\ exc' = "IOError"
                /\ UNCHANGED <<known_adware, projectx>>
           ELSE /\ projectx' = UNION {CandidateResult(candidate, job[candidate]) :
                                         candidate \in projectx_candidates}
                /\ known_adware' = known_adware \cup projectx'
                /\ pc' = "match"
                /\ exc' = exc
    /\ UNCHANGED <<args, fetchVars, diskVars, actVars>>

(* Lines 264-265: the patterns are expanded against the file system. *)
Match ==
    /\ pc = "match"
    /\ found_adware' = GlobAll(known_adware, fs)
    /\ todo' = found_adware'
    /\ pc' = "act"
    /\ UNCHANGED <<exc, args, known_adware, projectx, fetchVars, diskVars,
                   backup_dir, qdirs, moved, outcome, output>>

----------------------------------------------------------------------------
(* remove *)

Erase(disk, gone) == [p \in Paths |-> IF p \in gone THEN "none" ELSE disk[p]]

(* shutil.rmtree of a directory that holds files only: the file systems   *)
(* it may leave and whether it raised OSError. os.listdir of a directory   *)
(* that cannot be read raises before anything is deleted; the entries are  *)
(* deleted in os.listdir order and the first one that cannot be deleted    *)
(* ends the call.                                                          *)
RmtreeFlat(item, disk) ==
    LET inside == {q \in Below(item) : disk[q] # "none"}
        stuck == inside \cap locked
    IN  IF item \in unreadable
        THEN {[disk |-> disk, raised |-> TRUE]}
        ELSE IF stuck # {}
        THEN {[disk |-> Erase(disk, gone), raised |-> TRUE] :
                 gone \in SUBSET (inside \ stuck)}
        ELSE IF item \in locked
        THEN {[disk |-> Erase(disk, inside), raised |-> TRUE]}
        ELSE {[disk |-> Erase(disk, inside \cup {item}), raised |-> FALSE]}

(* shutil.rmtree(item). /Library/Application Support/ holds the install    *)
(* directory and CACHE, deleted in either order: wiped tells whether CACHE *)
(* (the cached lists, the quarantine directories) is gone.                 *)
Rmtree(item, disk) ==
    IF item # AppSupportSlash
    THEN {[disk |-> r.disk, raised |-> r.raised, wiped |-> FALSE] :
             r \in RmtreeFlat(item, disk)}
    ELSE IF item \in unreadable
    THEN {[disk |-> disk, raised |-> TRUE, wiped |-> FALSE]}
    ELSE UNION {IF r.raised
                THEN {[disk |-> r.disk, raised |-> TRUE, wiped |-> w] :
                         w \in BOOLEAN}
                ELSE IF item \in locked
                THEN {[disk |-> r.disk, raised |-> TRUE, wiped |-> TRUE]}
                ELSE {[disk |-> Erase(r.disk, {item}), raised |-> FALSE,
                       wiped |-> TRUE]} :
                   r \in IF disk[InstallDir] = "dir"
                         THEN RmtreeFlat(InstallDir, disk)
                         ELSE {[disk |-> disk, raised |-> FALSE]}}

(* Lines 172-179: the body of the loop for one item. *)
RemoveItem(item) ==
    CASE fs[item] = "dir" ->
            \E r \in Rmtree(item, fs) :
                /\ fs' = r.disk
                /\ outcome' = [outcome EXCEPT ![item] =
                                  IF r.raised THEN "remove-failed" ELSE "removed"]
                /\ cache' = IF r.wiped THEN [f \in CacheFiles |-> {}] ELSE cache
                /\ qdirs' = IF r.wiped THEN {} ELSE qdirs
      [] fs[item] = "file" ->
            /\ IF item \in locked
               THEN /\ outcome' = [outcome EXCEPT ![item] = "remove-failed"]
                    /\ fs' = fs
               ELSE /\ outcome' = [outcome EXCEPT ![item] = "removed"]
                    /\ fs' = Erase(fs, {item})
            /\ UNCHANGED <<cache, qdirs>>
      [] OTHER ->
            /\ outcome' = [outcome EXCEPT ![item] = "removed"]
            /\ UNCHANGED <<fs, cache, qdirs>>

(* Lines 169-179, called at line 269: one iteration of the loop, or the    *)
(* return once the loop is over.                                           *)
remove ==
    /\ pc = "act"
    /\ args = "remove"
    /\ IF todo = {}
       THEN /\ pc' = "done"
            /\ UNCHANGED <<fs, outcome, todo, cache, qdirs>>
       ELSE /\ \E item \in todo :
                /\ RemoveItem(item)
                /\ todo' = todo \ {item}
            /\ pc' = pc
    /\ UNCHANGED <<exc, args, known_adware, projectx, sources, idx, source,
                   adware_list, last, locked, unreadable, job, found_adware,
                   backup_dir, moved, output>>

----------------------------------------------------------------------------
(* quarantine *)

(* quarantine without the test of line 187: the directory is made even     *)
(* when files is empty.                                                    *)
quarantine_begin_unguarded ==
    /\ pc = "act"
    /\ args = "quarantine"
    /\ \E stamp \in Stamps :
           IF stamp \in qdirs
           THEN /\ pc' = "crashed"
                /\ exc' = "OSError"
                /\ UNCHANGED <<backup_dir, qdirs>>
           ELSE /\ backup_dir' = {Join(CACHE, <<stamp>>)}
                /\ qdirs' = qdirs \cup {stamp}
                /\ pc' = "quarantine"
                /\ exc' = exc
    /\ UNCHANGED <<args, known_adware, projectx, fetchVars, diskVars,
                   found_adware, todo, moved, outcome, output>>

(* Lines 186-189, called at line 271: the directory is made when files is  *)
(* not empty. os.mkdir of a name that exists raises OSError outside any    *)
(* try. With nothing to iterate the function returns at once.              *)
quarantine_begin ==
    /\ pc = "act"
    /\ args = "quarantine"
    /\ IF found_adware # {}
       THEN \E stamp \in Stamps :
                IF stamp \in qdirs
                THEN /\ pc' = "crashed"
                     /\ exc' = "OSError"
                     /\ UNCHANGED <<backup_dir, qdirs>>
                ELSE /\ backup_dir' = {Join(CACHE, <<stamp>>)}
                     /\ qdirs' = qdirs \cup {stamp}
                     /\ pc' = "quarantine"
                     /\ exc' = exc
       ELSE /\ pc' = "done"
            /\ UNCHANGED <<exc, backup_dir, qdirs>>
    /\ UNCHANGED <<args, known_adware, projectx, fetchVars, diskVars,
                   found_adware, todo, moved, outcome, output>>

(* os.path.exists of a path inside backup_dir (a broken link does not    *)
(* exist), and backup_dir after an entry was put at dst.                   *)
ExistsIn(held, dst) == \E m \in held : m[1] = dst /\ m[2] # "link"
PutIn(held, dst, kind) == {m \in held : m[1] # dst} \cup {<<dst, kind>>}

(* shutil.move(item, dir) of Python 2.7: what it raises and what it leaves. *)
(* shutil.Error and IOError are no OSError.                                 *)
Move(item, dir) ==
    LET real_dst == Join(dir, Basename(Strip(item)))
        inside == {q \in Below(item) : fs[q] # "none"}
    IN  IF ExistsIn(moved, real_dst)
        THEN \* "Destination path '%s' already exists"
             {[raised |-> "shutil.Error", disk |-> fs, moved |-> moved]}
        ELSE IF fs[item] = "none"
        THEN \* os.rename: ENOENT; not a directory, so copy2, whose open() fails
             {[raised |-> "IOError", disk |-> fs, moved |-> moved]}
        ELSE IF item = AppSupportSlash
        THEN \* os.rename fails, "Cannot move a directory '%s' into itself"
             {[raised |-> "shutil.Error", disk |-> fs, moved |-> moved]}
        ELSE IF item \notin locked
        THEN \* os.rename succeeds (a broken link at real_dst is replaced)
             {[raised |-> "none", disk |-> Erase(fs, inside \cup {item}),
               moved |-> PutIn(moved, real_dst, fs[item])]}
        ELSE IF fs[item] = "dir"
        THEN \* copytree, then rmtree, which cannot delete the locked item
             IF item \in unreadable
             THEN \* copytree: os.listdir raises before real_dst is made
                  {[raised |-> "OSError", disk |-> fs, moved |-> moved]}
             ELSE IF \E q \in inside : ~CanRead(q)
             THEN {[raised |-> "shutil.Error", disk |-> fs,
                    moved |-> PutIn(moved, real_dst, "dir")]}
             ELSE {[raised |-> "OSError", disk |-> r.disk,
                    moved |-> PutIn(moved, real_dst, "dir")] : r \in Rmtree(item, fs)}
        ELSE IF CanRead(item)
        THEN \* copy2, then os.unlink, which fails
             IF \E m \in moved : m[1] = real_dst
             THEN \* copy2 opens real_dst through the broken link that is
                  \* there: it fails when the link's target cannot be made,
                  \* else the copy lands at the target and the link stays
                  {[raised |-> x, disk |-> fs, moved |-> moved] :
                      x \in {"IOError", "OSError"}}
             ELSE {[raised |-> "OSError", disk |-> fs,
                    moved |-> PutIn(moved, real_dst, "file")]}
        ELSE \* copy2: open() of the item fails
             {[raised |-> "IOError", disk |-> fs, moved |-> moved]}

(* Lines 191-197: one iteration of the loop, or the return once it is over. *)
quarantine_items ==
    /\ pc = "quarantine"
    /\ IF todo = {}
       THEN /\ pc' = "done"
            /\ UNCHANGED <<exc, fs, moved, outcome, todo>>
       ELSE \E item \in todo :
            IF backup_dir = {}
            THEN /\ pc' = "crashed"
                 /\ exc' = "UnboundLocalError"
                 /\ UNCHANGED <<fs, moved, outcome, todo>>
            ELSE \E dir \in backup_dir : \E r \in Move(item, dir) :
                 /\ fs' = r.disk
                 /\ moved' = r.moved
                 /\ IF r.raised \in {"none", "OSError"}
                    THEN /\ outcome' = [outcome EXCEPT ![item] =
                                IF r.raised = "none" THEN "quarantined"
                                ELSE "quarantine-failed"]
                         /\ todo' = todo \ {item}
                         /\ pc' = pc
                         /\ exc' = exc
                    ELSE /\ pc' = "crashed"
                         /\ exc' = r.raised
                         /\ UNCHANGED <<outcome, todo>>
    /\ UNCHANGED <<args, known_adware, projectx, fetchVars, locked, unreadable,
                   job, found_adware, backup_dir, qdirs, output>>

----------------------------------------------------------------------------
(* The reporters. *)

(* The orders in which a set may be iterated. *)
Orders(S) ==
    {o \in [1..Cardinality(S) -> S] : \A a, b \in DOMAIN o : o[a] = o[b] => a = b}

(* enumerate(files, 1): the index starting at 1. *)
EnumerateFromOne(order) == [k \in DOMAIN order |-> <<k, order[k]>>]

(* enumerate(files): the pairs (index, item), the index starting at 0. *)
Enumerate(order) == [k \in DOMAIN order |-> <<k - 1, order[k]>>]

(* result += "%d: %s\n" % item, for every item of enumerate(files) *)
RECURSIVE Listing(_)
Listing(pairs) ==
    IF pairs = <<>> THEN <<>>
    ELSE <<ToString(Head(pairs)[1]), ": ">> \o Head(pairs)[2] \o <<NL>>
         \o Listing(Tail(pairs))

(* Lines 215-223 *)
ExtensionAttributeText(order) ==
    <<"<result>">>
    \o (IF order # <<>> THEN <<"True", NL>> \o Listing(Enumerate(order))
        ELSE <<"False">>)
    \o <<"</result>">>

(* Lines 202-205 *)
StdoutText(order) ==
    <<"Adware files found: ", ToString(Len(order)), NL>>
    \o (IF order # <<>> THEN Listing(Enumerate(order)) ELSE <<>>)

(* Lines 200-207, called at line 273. *)
report_to_stdout ==
    /\ pc = "act"
    /\ args = "stdout"
    /\ \E order \in Orders(found_adware) : output' = StdoutText(order)
    /\ pc' = "done"
    /\ UNCHANGED <<exc, args, known_adware, projectx, fetchVars, diskVars,
                   found_adware, todo, backup_dir, qdirs, moved, outcome>>

(* Lines 210-225, called at line 275 when no mode flag is given. *)
extension_attribute ==
    /\ pc = "act"
    /\ args \notin {"remove", "quarantine", "stdout"}
    /\ \E order \in Orders(found_adware) : output' = ExtensionAttributeText(order)
    /\ pc' = "done"
    /\ UNCHANGED <<exc, args, known_adware, projectx, fetchVars, diskVars,
                   found_adware, todo, backup_dir, qdirs, moved, outcome>>

----------------------------------------------------------------------------
(* Specifications. *)

Modes == {"none", "stdout", "remove", "quarantine"}

NoOutcome == [p \in Paths |-> "none"]

FreshLocals ==
    /\ exc = "none"
    /\ idx = 1
    /\ source = <<>>
    /\ adware_list = {}
    /\ known_adware = {}
    /\ last = "none"
    /\ projectx = {}
    /\ backup_dir = {}
    /\ moved = {}
    /\ outcome = NoOutcome
    /\ output = <<>>

(* The whole program, lines 247-275: one run of main with the sources of   *)
(* line 42, on a machine where an earlier run may have left a cached list. *)
Init ==
    /\ FreshLocals
    /\ pc = "load"
    /\ args \in Modes
    /\ sources = [len |-> Len(NEFARIOUS_FILE_SOURCES),
                  of |-> {NEFARIOUS_FILE_SOURCES[k] : k \in DOMAIN NEFARIOUS_FILE_SOURCES}]
    /\ cache \in {[f \in CacheFiles |-> {}],
                  [f \in CacheFiles |-> IF f = CachePath(AppleAdwareList)
                                        THEN {PatGlob \o <<NL>>} ELSE {}]}
    /\ fs \in {d \in FileSystems : d[DaemonJob] = "none"}
    /\ \E pr \in Protections : locked = pr.locked /\ unreadable = pr.unreadable
    /\ job \in [Jobs -> JobSamples]
    /\ job[DaemonJob] = <<"n">>
    /\ found_adware = {}
    /\ todo = {}
    /\ qdirs = {}

Next ==
    \/ LoadSource
    \/ LoadReturn
    \/ get_projectX_files
    \/ Match
    \/ remove
    \/ quarantine_begin
    \/ quarantine_items
    \/ report_to_stdout
    \/ extension_attribute

Spec == Init /\ [][Next]_vars

(* load_adware_description_files called with any list of sources, again    *)
(* and again, on a cache that starts empty.                                *)
InitFetch ==
    /\ FreshLocals
    /\ pc = "load"
    /\ args = "none"
    /\ sources \in SourceLists
    /\ cache = [f \in CacheFiles |-> {}]
    /\ fs = [p \in Paths |-> "none"]
    /\ locked = {}
    /\ unreadable = {}
    /\ job = [j \in Jobs |-> <<>>]
    /\ found_adware = {}
    /\ todo = {}
    /\ qdirs = {}

NextFetch == LoadSource \/ LoadReturn \/ CallAgain

SpecFetch == InitFetch /\ [][NextFetch]_vars

(* get_projectX_files on any job files. *)
InitDetect ==
    /\ FreshLocals
    /\ pc = "detect"
    /\ args = "none"
    /\ sources = [len |-> 0, of |-> Sources]
    /\ cache = [f \in CacheFiles |-> {}]
    /\ fs \in {d \in FileSystems : d[InstallDir] = "none"}
    /\ locked = {}
    /\ unreadable \in {u \in SUBSET Jobs : Cardinality(u) <= MaxProtected}
    /\ job \in [Jobs -> JobTexts]
    /\ job[DaemonJob] \in JobSamples
    /\ found_adware = {}
    /\ todo = {}
    /\ qdirs = {}

NextDetect == get_projectX_files \/ Match

SpecDetect == InitDetect /\ [][NextDetect]_vars

(* remove and quarantine called with any set of paths. *)
InitAct ==
    /\ FreshLocals
    /\ pc = "act"
    /\ args \in {"remove", "quarantine"}
    /\ sources = [len |-> 0, of |-> Sources]
    /\ cache = [f \in CacheFiles |-> {}]
    /\ fs \in FileSystems
    /\ \E pr \in Protections : locked = pr.locked /\ unreadable = pr.unreadable
    /\ job = [j \in Jobs |-> <<>>]
    /\ found_adware \in SUBSET Paths
    /\ todo = found_adware
    /\ qdirs \in {{}, {"20150301-120000"}}

NextAct == remove \/ quarantine_begin \/ quarantine_items

SpecAct == InitAct /\ [][NextAct]_vars

----------------------------------------------------------------------------
(* Properties. *)

(* A step of the for loop of load_adware_description_files starts here. *)
InLoad == pc = "load" /\ idx <= sources.len

(* The lines of a text: its maximal runs without a newline. *)
LinesOf(text) ==
    {SubSeq(text, h[1], h[2]) :
        h \in {g \in (1..(Len(text) + 1)) \X (0..Len(text)) :
                  /\ g[2] >= g[1] - 1
                  /\ (g[1] = 1 \/ text[g[1] - 1] = NL)
                  /\ (g[2] = Len(text) \/ text[g[2] + 1] = NL)
                  /\ \A k \in g[1]..g[2] : text[k] # NL}}

(* C1: in load_adware_description_files, when the network retrieval of a   *)
(* source fails and no cached copy of it can be read, the call does not    *)
(* raise and the source adds nothing to the set of patterns, whatever the  *)
(* position of the source in the list, the first one included.             *)
C1_UnreachableSourceIsSkipped ==
    [][(InLoad /\ last' \in {"stale", "unbound"})
          => /\ pc' = "load"
             /\ idx' = idx + 1
             /\ known_adware' = known_adware]_vars

(* The first source of a list of two could not be retrieved and had no     *)
(* cached copy: line 164 read adware_list before any assignment to it.     *)
C1_Witness ==
    /\ pc = "crashed"
    /\ exc = "UnboundLocalError"
    /\ last = "unbound"
    /\ idx = 1
    /\ sources.len = 2

(* C2, as claimed: when the network retrieval fails and a cached copy is   *)
(* read, the source contributes exactly the lines of the cached text with  *)
(* the empty lines discarded, and the cache is left unchanged.             *)
C2_CachedCopyParsedWithoutEmptyLines ==
    [][(InLoad /\ last' = "cached")
          => /\ \E text \in cache[Join(CACHE, Basename(source'))] :
                    known_adware' = known_adware \cup (LinesOf(text) \ {<<>>})
             /\ cache' = cache]_vars

(* C2, as the code has it: when the network retrieval fails and a cached   *)
(* copy is read, the source contributes every line of the cached text, an  *)
(* empty line contributing the empty pattern, and the cache is left        *)
(* unchanged.                                                              *)
C2_CachedCopyParsedKeepingEmptyLines ==
    [][(InLoad /\ last' = "cached")
          => /\ \E text \in cache[Join(CACHE, Basename(source'))] :
                    known_adware' = known_adware \cup LinesOf(text)
             /\ cache' = cache
             /\ pc' = "load"]_vars

(* A cached copy holding a pattern and an empty line was the fallback of a *)
(* source that followed one with other patterns.                           *)
C2_Witness ==
    /\ last = "cached"
    /\ idx = 3
    /\ \E text \in cache[Join(CACHE, Basename(source))] :
           /\ adware_list = {text}
           /\ {<<>>, PatGlob} \subseteq LinesOf(text)
           /\ ~(known_adware \subseteq LinesOf(text))

(* C3: a cache write that fails with a permission error ends the run at    *)
(* once with exit status 13, no later source being fetched and no          *)
(* detection, matching, report, remove or quarantine step being run; and   *)
(* no other failure while the lists are fetched ends the run.              *)
C3_OnlyCachePermissionErrorEndsTheRun ==
    /\ last = "denied" => pc = "exit"
    /\ pc = "exit" =>
           /\ exc = "SystemExit(13)"
           /\ last = "denied"
           /\ known_adware = {} /\ projectx = {} /\ found_adware = {}
           /\ outcome = NoOutcome /\ output = <<>> /\ backup_dir = {}
    /\ last \in {"stored", "write-error", "cached", "stale", "unbound"}
           => pc = "load"

(* The only source could not be retrieved and no cached list was there:    *)
(* the run ended with an exception that is no exit with status 13.         *)
C3_Witness ==
    /\ pc = "crashed"
    /\ exc = "UnboundLocalError"
    /\ source = AppleAdwareList
    /\ cache[CachePath(AppleAdwareList)] = {}
    /\ found_adware = {} /\ output = <<>>

(* C4: quarantine of a non-empty set makes exactly one timestamped         *)
(* directory under CACHE and attempts every entry: no failure on an entry  *)
(* (permission denied, path gone, a base name taken, a parent moved        *)
(* before) keeps it from the others, and in the end every entry is in the  *)
(* directory under its base name with its original gone, or is marked      *)
(* quarantine-failed. (A directory name taken by an earlier run of the     *)
(* same second is the limitation the specification accepts.)               *)
C4_QuarantineAttemptsEveryEntry ==
    (args = "quarantine" /\ found_adware # {}) =>
        /\ pc = "crashed" => exc = "OSError" /\ backup_dir = {}
        /\ pc = "done" =>
               /\ Cardinality(backup_dir) = 1
               /\ \A item \in found_adware :
                      \/ outcome[item] = "quarantine-failed"
                      \/ /\ outcome[item] = "quarantined"
                         /\ fs[item] = "none"
                         /\ \E dir \in backup_dir : \E m \in moved :
                                m[1] = Join(dir, Basename(Strip(item)))

(* One entry was moved into the directory; the next one, with the same     *)
(* base name, made shutil.move raise shutil.Error, which left quarantine    *)
(* with entries still to process.                                          *)
C4_Witness ==
    /\ pc = "crashed"
    /\ args = "quarantine"
    /\ exc = "shutil.Error"
    /\ outcome[AgentJob] = "quarantined"
    /\ InstallFile \in todo
    /\ Cardinality(todo) >= 2

(* C5: remove attempts every entry: a directory is deleted with all its    *)
(* contents and a regular file is deleted (or the entry is marked          *)
(* remove-failed), an entry whose path is missing when it is processed is  *)
(* marked remove-failed and not removed, and no exception leaves the loop. *)
C5_RemoveOutcomes ==
    [][(pc = "act" /\ args = "remove" /\ todo # {})
          => /\ pc' = "act"
             /\ Cardinality(todo \ todo') = 1
             /\ \A item \in todo \ todo' :
                    /\ fs[item] = "none" => outcome'[item] = "remove-failed"
                    /\ fs[item] \in {"file", "dir"} =>
                           \/ outcome'[item] = "remove-failed"
                           \/ /\ outcome'[item] = "removed"
                              /\ \A q \in Below(item) \cup {item} : fs'[q] = "none"]_vars

(* An entry that nothing could have deleted (it is locked) and that is not *)
(* on the file system was logged as removed.                               *)
C5_Witness ==
    /\ args = "remove"
    /\ AgentJob \in locked
    /\ fs[AgentJob] = "none"
    /\ outcome[AgentJob] = "removed"

(* C6: quarantine of an empty set makes no directory, moves nothing, reads *)
(* no unbound backup_dir and returns normally with no outcome; the file    *)
(* system is unchanged.                                                    *)
C6_EmptyQuarantineDoesNothing ==
    [][(pc = "act" /\ args = "quarantine" /\ found_adware = {})
          => /\ pc' = "done"
             /\ exc' = "none"
             /\ backup_dir' = {}
             /\ outcome' = NoOutcome
             /\ UNCHANGED <<fs, cache, qdirs, moved>>]_vars

(* quarantine has returned from a call with an empty set, on a machine    *)
(* that holds adware files and an earlier quarantine directory.            *)
C6_Witness ==
    /\ pc = "done"
    /\ args = "quarantine"
    /\ found_adware = {}
    /\ fs[InstallDir] = "dir"
    /\ qdirs # {}

(* The candidates of get_projectX_files and the names a text carries in   *)
(* the signature /Library/Application Support/<name>/Agent/agent.app/...   *)
Candidates == {p \in Jobs : fs[p] # "none"}
SignatureNames(text) ==
    {SubSeq(text, h[1] + Len(SigPrefix), h[2] - 1) :
        h \in {g \in (1..Len(text)) \X (1..Len(text)) :
                  /\ OccursAt(SigPrefix, text, g[1])
                  /\ OccursAt(SigSuffix, text, g[2])
                  /\ g[2] >= g[1] + Len(SigPrefix)
                  /\ \A k \in g[1]..g[2] : text[k] # NL}}

(* C7: a candidate that cannot be read is a non-match: the scan does not   *)
(* abort, the other candidates are examined, and the set returned is the   *)
(* one returned with the unreadable candidate absent.                      *)
C7_UnreadableCandidateIsNoMatch ==
    /\ pc = "crashed" => exc # "IOError"
    /\ pc \in {"match", "act"} =>
           projectx = UNION {CandidateResult(c, job[c]) :
                                c \in {r \in Candidates : CanRead(r)}}

(* The daemon job could not be opened (permission denied) and the scan     *)
(* ended with IOError, though the agent job holds the signature.           *)
C7_Witness ==
    /\ pc = "crashed"
    /\ exc = "IOError"
    /\ fs[DaemonJob] = "file"
    /\ DaemonJob \in unreadable
    /\ CanRead(AgentJob)
    /\ RegexSearch(job[AgentJob]) # {}

(* C9: get_projectX_files returns exactly, for every readable candidate    *)
(* whose text holds the signature with some <name>, the candidate's path   *)
(* and the directory /Library/Application Support/<name>; a candidate      *)
(* without the signature contributes nothing.                              *)
C9_ProjectXFilesResult ==
    LET hits == {c \in Candidates : CanRead(c) /\ SignatureNames(job[c]) # {}}
    IN  /\ pc # "crashed"
        /\ pc \in {"match", "act"} =>
               /\ \A c \in hits :
                      /\ c \in projectx
                      /\ \E name \in SignatureNames(job[c]) :
                             Join(AppSupport, name) \in projectx
               /\ \A p \in projectx : \E c \in hits :
                      \/ p = c
                      \/ \E name \in SignatureNames(job[c]) :
                             p = Join(AppSupport, name)

(* The agent job holds "agentXapp" where the signature has "agent.app":    *)
(* it does not hold the signature, and it was returned with a directory.   *)
C9_Witness ==
    /\ pc = "match"
    /\ CanRead(AgentJob)
    /\ SignatureNames(job[AgentJob]) = {}
    /\ {AgentJob, InstallDir} \subseteq projectx

(* The extension attribute of a set of matches, for each order of it. *)
ExtensionAttributeOf(files) ==
    IF files = {}
    THEN {<<"<result>", "False", "</result>">>}
    ELSE {<<"<result>", "True", NL>>
          \o Flatten([k \in DOMAIN o |-> <<ToString(k - 1), ": ">> \o o[k] \o <<NL>>])
          \o <<"</result>">> : o \in Orders(files)}

(* C10: with no mode flag the run prints the extension attribute of the    *)
(* matches: <result>False</result> for none, else <result>True, a newline  *)
(* and one line "index: path" per match, the indices 0, 1, 2, ... in the   *)
(* order of iteration, then </result>; printing it changes nothing on the  *)
(* file system.                                                            *)
C10_ExtensionAttributeReport ==
    /\ [](pc = "done" /\ args = "none" => output \in ExtensionAttributeOf(found_adware))
    /\ [][(pc = "act" /\ args = "none")
             => /\ pc' = "done"
                /\ output' # <<>>
                /\ UNCHANGED <<fs, cache, qdirs, moved, backup_dir>>]_vars

(* The report of a run with no mode flag that found three matches. *)
C10_Witness ==
    /\ pc = "done"
    /\ args = "none"
    /\ Cardinality(found_adware) = 3
    /\ output # <<>>

(* C8, as claimed: the cache entry read back for a source is the text of   *)
(* that source's latest successful fetch: only a successful fetch of the   *)
(* source itself changes the entry.                                        *)
C8_EntryIsLatestFetchOfItsSource ==
    [][\A s \in Sources :
          cache'[Join(CACHE, Basename(s))] # cache[Join(CACHE, Basename(s))]
             => /\ source' = s
                /\ last' = "stored"
                /\ cache'[Join(CACHE, Basename(s))] = adware_list']_vars

(* C8, as the code has it: the cache entry read back under a file name is what was    *)
(* last written under that name: an entry changes only when a source with  *)
(* that trailing path segment is downloaded, to the downloaded text when   *)
(* the write succeeds and to a part of it, from its start, when the write  *)
(* itself fails; a failed network retrieval changes no entry, and neither  *)
(* does the fetch of a source with another trailing path segment.          *)
C8_EntryIsLatestWriteUnderItsName ==
    /\ [][\A f \in CacheFiles :
             cache'[f] # cache[f]
                => /\ InLoad
                   /\ f = Join(CACHE, Basename(source'))
                   /\ \/ last' = "stored" /\ cache'[f] = adware_list'
                      \/ /\ last' = "write-error"
                         /\ \E text \in adware_list' : cache'[f] \in Truncated(text)]_vars
    /\ [][(InLoad /\ last' = "stored")
             => /\ adware_list' # {}
                /\ cache'[Join(CACHE, Basename(source'))] = adware_list']_vars

(* A fetch of the mirror failed while it wrote the cache file: the entry   *)
(* read back for the Apple list, which has the same trailing path segment, *)
(* is the start of the mirror's text, and another entry is as stored.      *)
C8_Witness ==
    /\ pc = "crashed"
    /\ last = "write-error"
    /\ source = MirrorList
    /\ adware_list = {PatGlob}
    /\ cache[Join(CACHE, Basename(AppleAdwareList))] = {AppSupportSlash}
    /\ cache[Join(CACHE, Basename(OtherList))] = {<<NL>>}

====
